---- MODULE Spec2Model ----
(***************************************************************************)
(* Model of the dock "apps" plugin (src/src/lib.rs): the zbus polling      *)
(* thread spawned by Apps::spawn_zbus, the event loop spawned by           *)
(* on_plugin_load on the glib main context, and on_plugin_unload.          *)
(*                                                                         *)
(* Strings (window titles, descriptions, application names, desktop file   *)
(* paths) are drawn from totally ordered finite sets of naturals; the      *)
(* order of the naturals stands for String's Ord.                          *)
(***************************************************************************)
EXTENDS Integers, Sequences, FiniteSets, TLC

(***************************************************************************)
(* Bounds of the model.                                                    *)
(***************************************************************************)
\* longest WindowList reply
MaxLen == 2
\* titles are 1..MaxTitle
MaxTitle == 2
\* descriptions / application names are 1..MaxApp
MaxApp == 1
\* capacity of the event channel (mpsc::channel(100) at lib.rs:104, scaled down)
QueueCap == 1
\* longest initial favorites list
MaxFav == 1
\* cache length, descriptions and favorites of the runs of single passes (SpecPass)
PassMaxLen == 3
PassMaxApp == 2
PassMaxFav == 2

\* usize (the type of the fold at lib.rs:57-67 and of len()) is 64 bits wide,
\* kept as UsizeLimbs limbs of LimbBits bits each
UsizeLimbs == 4
LimbBits == 16

Titles == 1..MaxTitle
AppNames == 1..MaxApp
WindowIds == 1..MaxLen
\* Option<DesktopAppInfo> / Option<String> that is None
NoApp == 0

VARIABLES
    cached_window_list, \* Apps.cached_window_list: Vec<Item>
    cache_lock,         \* holder of the cached_window_list mutex
    close_thread,       \* Apps.close_thread
    poller_pc,          \* position of the thread spawned in spawn_zbus
    reply,              \* the decoded WindowList reply the poller holds
    queue,              \* messages in the mpsc channel
    disp_pc,            \* position of the event loop future
    stack_active,       \* the local stack_active of a reconciliation pass
    saved_app_model,    \* model(DockListType::Saved)
    active_app_model,   \* model(DockListType::Active)
    lifecycle,          \* position of the host in on_plugin_load / on_plugin_unload
    crashed,            \* the process died of a panic
    last_ok,            \* history: the last successfully decoded reply, as received
    had_ok,             \* history: some reply was decoded
    slept               \* history: the poller slept since it last issued a call

vars == <<cached_window_list, cache_lock, close_thread, poller_pc, reply, queue,
          disp_pc, stack_active, saved_app_model, active_app_model, lifecycle,
          crashed, last_ok, had_ok, slept>>

(***************************************************************************)
(* Data.                                                                   *)
(***************************************************************************)
\* utils::Item as used by lib.rs: name (the title), description, and a handle
Item == [id : WindowIds, name : Titles, description : AppNames]

RECURSIVE SeqsUpTo(_, _)
SeqsUpTo(S, n) ==
    IF n = 0 THEN {<<>>}
    ELSE LET shorter == SeqsUpTo(S, n - 1)
         IN shorter \cup {Append(s, x) : s \in {t \in shorter : Len(t) = n - 1}, x \in S}

DistinctIds(s) == \A i, j \in DOMAIN s : i # j => s[i].id # s[j].id

\* what the window manager may answer to WindowList
Replies == {s \in SeqsUpTo(Item, MaxLen) : DistinctIds(s)}

\* Event (utils::Event), as a record of uniform shape
Ev(t, a, f) == [type |-> t, arg |-> a, flag |-> f]
EvWindowList == Ev("WindowList", 0, FALSE)
EvRefreshFromCache == Ev("RefreshFromCache", 0, FALSE)
EvActivate(e) == Ev("Activate", e, FALSE)
EvClose(e) == Ev("Close", e, FALSE)
EvFavorite(name, should_favorite) == Ev("Favorite", name, should_favorite)

\* the "active" property of a DockObject: absent, or a BoxedWindowList
NoStack == [some |-> FALSE, windows |-> <<>>]
SomeStack(w) == [some |-> TRUE, windows |-> w]

\* DockObject: desktop file path, appinfo (by its name()), active, saved
DockObj(p, a, act, s) == [path |-> p, appinfo |-> a, active |-> act, saved |-> s]

(***************************************************************************)
(* reply.sort_by(|a, b| a.name.cmp(&b.name)): a stable sort by title.      *)
(***************************************************************************)
RECURSIVE InsertByName(_, _)
InsertByName(sorted, w) ==
    IF sorted = <<>> THEN <<w>>
    ELSE IF sorted[Len(sorted)].name <= w.name THEN Append(sorted, w)
    ELSE Append(InsertByName(SubSeq(sorted, 1, Len(sorted) - 1), w), sorted[Len(sorted)])

\* The sort left out.
SortByName_Unsorted(s) == s

RECURSIVE SortByName(_)
SortByName(s) ==
    IF s = <<>> THEN <<>>
    ELSE InsertByName(SortByName(SubSeq(s, 1, Len(s) - 1)), s[Len(s)])

(***************************************************************************)
(* The materiality test of lib.rs:56-67.                                   *)
(***************************************************************************)
MinOf(a, b) == IF a <= b THEN a ELSE b

\* reply.iter().zip(cached.iter()).fold(0, |acc, (a, b)| if a.name == b.name {acc + 1} else {acc})
RECURSIVE FoldMatches(_, _, _, _)
FoldMatches(rep, cached, i, acc) ==
    IF i > MinOf(Len(rep), Len(cached)) THEN acc
    ELSE FoldMatches(rep, cached, i + 1,
                     IF rep[i].name = cached[i].name THEN acc + 1 ELSE acc)

CountMatches(rep, cached) == FoldMatches(rep, cached, 1, 0)

LimbBase == 2 ^ LimbBits

\* a usize as its limbs, least significant first
RECURSIVE LimbsOf(_, _)
LimbsOf(n, k) == IF k = 0 THEN <<>> ELSE <<n % LimbBase>> \o LimbsOf(n \div LimbBase, k - 1)

ToUsize(n) == LimbsOf(n, UsizeLimbs)

\* `!x` on a usize is the bitwise complement
NotUsize(b) == [i \in DOMAIN b |-> (LimbBase - 1) - b[i]]

\* The `!` dropped: the fold compared to the length as it stands.
MaterialChange_NoNot(cached, rep) ==
    \/ Len(cached) # Len(rep)
    \/ ToUsize(CountMatches(rep, cached)) = ToUsize(Len(cached))

\* cached.len() != reply.len() || !fold(..) == cached.len()
\* `!` binds tighter than `==`: the complement of the count is compared to the length.
MaterialChange(cached, rep) ==
    \/ Len(cached) # Len(rep)
    \/ NotUsize(ToUsize(CountMatches(rep, cached))) = ToUsize(Len(cached))

(***************************************************************************)
(* Grouping (lib.rs:172-187 and 247-262): a fold into a BTreeMap keyed by  *)
(* description, then into_values(), which yields the values in key order.  *)
(***************************************************************************)
\* The fold with the push dropped: a key keeps only its first window.
RECURSIVE GroupFold_FirstOnly(_, _, _)
GroupFold_FirstOnly(cache, i, acc) ==
    IF i > Len(cache) THEN acc
    ELSE LET d == cache[i].description
         IN IF d \in DOMAIN acc
            THEN GroupFold_FirstOnly(cache, i + 1, acc)
            ELSE GroupFold_FirstOnly(cache, i + 1,
                     [k \in DOMAIN acc \cup {d} |-> IF k = d THEN <<cache[i]>> ELSE acc[k]])

RECURSIVE GroupFold(_, _, _)
GroupFold(cache, i, acc) ==
    IF i > Len(cache) THEN acc
    ELSE LET d == cache[i].description
         IN IF d \in DOMAIN acc
            THEN GroupFold(cache, i + 1, [acc EXCEPT ![d] = Append(@, cache[i])])
            ELSE GroupFold(cache, i + 1,
                     [k \in DOMAIN acc \cup {d} |-> IF k = d THEN <<cache[i]>> ELSE acc[k]])

MinKey(S) == CHOOSE k \in S : \A x \in S : k <= x

RECURSIVE IntoValues(_)
IntoValues(m) ==
    IF DOMAIN m = {} THEN <<>>
    ELSE LET k == MinKey(DOMAIN m)
         IN <<m[k]>> \o IntoValues([x \in DOMAIN m \ {k} |-> m[x]])

EmptyMap == [k \in {} |-> <<>>]

Group(cache) == IntoValues(GroupFold(cache, 1, EmptyMap))

(***************************************************************************)
(* Merge with the saved model (lib.rs:193-232 and 268-304).                *)
(***************************************************************************)
\* The removal left out.
RemoveAt_Keeps(s, j) == s

RemoveAt(s, j) == SubSeq(s, 1, j - 1) \o SubSeq(s, j + 1, Len(s))

\* stack_active.iter().enumerate().find(|(_, s)| s.0[0].description == name)
FindStack(stacks, name) ==
    LET hits == {j \in DOMAIN stacks : stacks[j][1].description = name}
    IN IF hits = {} THEN 0 ELSE MinKey(hits)

\* The found stack attached but left in stack_active.
RECURSIVE MergeSaved_NoRemove(_, _, _, _)
MergeSaved_NoRemove(saved, i, stacks, cache) ==
    IF i > Len(saved) THEN [saved |-> saved, stacks |-> stacks]
    ELSE LET name == saved[i].appinfo
             j == IF name = NoApp THEN 0 ELSE FindStack(stacks, name)
         IN IF name = NoApp THEN MergeSaved_NoRemove(saved, i + 1, stacks, cache)
            ELSE IF j # 0
            THEN MergeSaved_NoRemove([saved EXCEPT ![i].active = SomeStack(stacks[j])],
                                     i + 1, stacks, cache)
            ELSE IF \E k \in DOMAIN cache : cache[k].description = name
            THEN MergeSaved_NoRemove([saved EXCEPT ![i].active = SomeStack(<<>>)],
                                     i + 1, stacks, cache)
            ELSE MergeSaved_NoRemove(saved, i + 1, stacks, cache)

\* A favorite found nowhere gets its stack cleared.
RECURSIVE MergeSaved_ClearsMissing(_, _, _, _)
MergeSaved_ClearsMissing(saved, i, stacks, cache) ==
    IF i > Len(saved) THEN [saved |-> saved, stacks |-> stacks]
    ELSE LET name == saved[i].appinfo
             j == IF name = NoApp THEN 0 ELSE FindStack(stacks, name)
         IN IF name = NoApp THEN MergeSaved_ClearsMissing(saved, i + 1, stacks, cache)
            ELSE IF j # 0
            THEN MergeSaved_ClearsMissing([saved EXCEPT ![i].active = SomeStack(stacks[j])],
                                          i + 1, RemoveAt(stacks, j), cache)
            ELSE MergeSaved_ClearsMissing([saved EXCEPT ![i].active = SomeStack(<<>>)],
                                          i + 1, stacks, cache)

RECURSIVE MergeSaved(_, _, _, _)
MergeSaved(saved, i, stacks, cache) ==
    IF i > Len(saved) THEN [saved |-> saved, stacks |-> stacks]
    ELSE LET name == saved[i].appinfo
             j == IF name = NoApp THEN 0 ELSE FindStack(stacks, name)
         IN IF name = NoApp THEN MergeSaved(saved, i + 1, stacks, cache)
            ELSE IF j # 0
            THEN MergeSaved([saved EXCEPT ![i].active = SomeStack(stacks[j])],
                            i + 1, RemoveAt(stacks, j), cache)
            ELSE IF \E k \in DOMAIN cache : cache[k].description = name
            THEN MergeSaved([saved EXCEPT ![i].active = SomeStack(<<>>)],
                            i + 1, stacks, cache)
            ELSE MergeSaved(saved, i + 1, stacks, cache)

\* DockObject::from_search_results(v)
FromSearchResults(v) == DockObj(v[1].description, v[1].description, SomeStack(v), FALSE)

\* The first remaining stack left out of the splice.
Publish_FromSecond(stacks) ==
    [k \in 1..(Len(stacks) - 1) |-> FromSearchResults(stacks[k + 1])]

\* stack_active.into_iter().map(from_search_results).collect(), spliced over the whole model
Publish(stacks) == [k \in 1..Len(stacks) |-> FromSearchResults(stacks[k])]

(***************************************************************************)
(* The move of Event::Favorite (lib.rs:130-166).                           *)
(***************************************************************************)
\* The index starting at the first object instead of None.
LastIndexOf_FromFirst(model, name) ==
    LET hits == {i \in DOMAIN model : model[i].path = name}
    IN IF hits = {} THEN (IF model = <<>> THEN 0 ELSE 1)
       ELSE CHOOSE i \in hits : \A x \in hits : x <= i

\* the index the scan ends with: the last object whose path is `name`, or 0
LastIndexOf(model, name) ==
    LET hits == {i \in DOMAIN model : model[i].path = name}
    IN IF hits = {} THEN 0 ELSE CHOOSE i \in hits : \A x \in hits : x <= i

\* set_saved(flag) on every object whose path is `name`
MarkSaved(model, name, flag) ==
    [i \in DOMAIN model |->
        IF model[i].path = name THEN [model[i] EXCEPT !.saved = flag] ELSE model[i]]

(***************************************************************************)
(* Initial state: the plugin object as constructed (Apps::default()).       *)
(***************************************************************************)
\* the favorites AppsContainer::new puts in the saved model
FavsOver(apps, n) ==
    SeqsUpTo(UNION {{DockObj(p, p, NoStack, TRUE), DockObj(p, NoApp, NoStack, TRUE)} :
                       p \in apps},
             n)

InitFavs == FavsOver(AppNames, MaxFav)

Init ==
    /\ cached_window_list = <<>>
    /\ cache_lock = "free"
    /\ close_thread = FALSE
    /\ poller_pc = "none"
    /\ reply = <<>>
    /\ queue = <<>>
    /\ disp_pc = "none"
    /\ stack_active = <<>>
    /\ saved_app_model = <<>>
    /\ active_app_model = <<>>
    /\ lifecycle = "new"
    /\ crashed = FALSE
    /\ last_ok = <<>>
    /\ had_ok = FALSE
    /\ slept = TRUE

(***************************************************************************)
(* on_plugin_load (lib.rs:103-318): creates the channel, spawns the        *)
(* polling thread and the event loop.                                      *)
(***************************************************************************)
OnPluginLoad ==
    /\ lifecycle = "new"
    /\ \E favs \in InitFavs : saved_app_model' = favs
    /\ lifecycle' = "loaded"
    /\ poller_pc' = "top"
    /\ disp_pc' = "recv"
    /\ UNCHANGED <<cached_window_list, cache_lock, close_thread, reply, queue,
                   stack_active, active_app_model, crashed, last_ok, had_ok, slept>>

(***************************************************************************)
(* The polling thread (lib.rs:45-77).                                      *)
(***************************************************************************)
\* the thread runs as long as the process lives
PollerRunning == ~crashed

PollerFrame == <<queue, disp_pc, stack_active, saved_app_model, active_app_model,
                 lifecycle, crashed, close_thread>>

\* while !*close_thread.lock().unwrap(): leave the loop, or issue the call
PollerCheckFlag ==
    /\ PollerRunning /\ poller_pc = "top"
    /\ IF close_thread
       THEN poller_pc' = "stopped" /\ slept' = slept
       ELSE poller_pc' = "call" /\ slept' = FALSE
    /\ UNCHANGED <<cached_window_list, cache_lock, reply, last_ok, had_ok>>
    /\ UNCHANGED PollerFrame

\* the call returns Ok(m) and m.body::<Vec<Item>>() is Ok(reply)
PollerReplyOk ==
    /\ PollerRunning /\ poller_pc = "call"
    /\ \E r \in Replies : reply' = r
    /\ poller_pc' = "lock"
    /\ UNCHANGED <<cached_window_list, cache_lock, last_ok, had_ok, slept>>
    /\ UNCHANGED PollerFrame

\* the call returns Ok(m) but the body does not decode: straight to the sleep
PollerDecodeErr ==
    /\ PollerRunning /\ poller_pc = "call"
    /\ poller_pc' = "sleep"
    /\ UNCHANGED <<cached_window_list, cache_lock, reply, last_ok, had_ok, slept>>
    /\ UNCHANGED PollerFrame

\* A transport error that ends the thread.
PollerCallErr_Stops ==
    /\ PollerRunning /\ poller_pc = "call"
    /\ poller_pc' = "stopped"
    /\ UNCHANGED <<cached_window_list, cache_lock, reply, last_ok, had_ok, slept>>
    /\ UNCHANGED PollerFrame

\* the call returns Err: the `if let Ok(m)` body, sleep included, is skipped
PollerCallErr ==
    /\ PollerRunning /\ poller_pc = "call"
    /\ poller_pc' = "top"
    /\ UNCHANGED <<cached_window_list, cache_lock, reply, last_ok, had_ok, slept>>
    /\ UNCHANGED PollerFrame

\* lock the cache, sort the reply, compare; on a change splice it in and go to the send
PollerDiff ==
    /\ PollerRunning /\ poller_pc = "lock"
    /\ cache_lock = "free"
    /\ LET sorted == SortByName(reply)
       IN IF MaterialChange(cached_window_list, sorted)
          THEN /\ cached_window_list' = sorted
               /\ cache_lock' = "poller"
               /\ poller_pc' = "send"
          ELSE /\ UNCHANGED <<cached_window_list, cache_lock>>
               /\ poller_pc' = "sleep"
    /\ last_ok' = reply
    /\ had_ok' = TRUE
    /\ reply' = <<>>
    /\ UNCHANGED slept
    /\ UNCHANGED PollerFrame

\* The event dropped instead of sent when the guard is released.
PollerSend_NoPush ==
    /\ PollerRunning /\ poller_pc = "send"
    /\ cache_lock' = "free"
    /\ poller_pc' = "sleep"
    /\ UNCHANGED <<cached_window_list, reply, last_ok, had_ok, slept, queue, disp_pc,
                   stack_active, saved_app_model, active_app_model, lifecycle,
                   crashed, close_thread>>

\* sender.send(Event::WindowList).await, the cache guard still held; the guard
\* is dropped at the end of the block
PollerSend ==
    /\ PollerRunning /\ poller_pc = "send"
    /\ Len(queue) < QueueCap
    /\ queue' = Append(queue, EvWindowList)
    /\ cache_lock' = "free"
    /\ poller_pc' = "sleep"
    /\ UNCHANGED <<cached_window_list, reply, last_ok, had_ok, slept, disp_pc,
                   stack_active, saved_app_model, active_app_model, lifecycle,
                   crashed, close_thread>>

\* glib::timeout_future(100ms).await
PollerSleep ==
    /\ PollerRunning /\ poller_pc = "sleep"
    /\ poller_pc' = "top"
    /\ slept' = TRUE
    /\ UNCHANGED <<cached_window_list, cache_lock, reply, last_ok, had_ok>>
    /\ UNCHANGED PollerFrame

PollerNext ==
    \/ PollerCheckFlag
    \/ PollerReplyOk
    \/ PollerDecodeErr
    \/ PollerCallErr
    \/ PollerDiff
    \/ PollerSend
    \/ PollerSleep

(***************************************************************************)
(* The event loop (lib.rs:112-316), a future on the glib main context: it  *)
(* runs on the main thread, between the host's calls.                      *)
(***************************************************************************)
DispRunning == lifecycle = "loaded" /\ ~crashed

\* the main thread is inside a synchronous stretch of the event loop: a pass,
\* or the Favorite handler on its way to a send that finds room in the channel
\* (the send then completes within the same poll of the future)
MainBusy ==
    \/ disp_pc \in {"wl_lock", "wl_merge", "refresh_lock", "refresh_merge"}
    \/ disp_pc = "fav_send" /\ Len(queue) < QueueCap

HeadIs(t) == queue # <<>> /\ Head(queue).type = t

DispFrame == <<cached_window_list, close_thread, poller_pc, reply, lifecycle,
               last_ok, had_ok, slept>>

\* Event::Activate(e): the WindowFocus call is issued and awaited
RecvActivate ==
    /\ DispRunning /\ disp_pc = "recv" /\ HeadIs("Activate")
    /\ queue' = Tail(queue)
    /\ disp_pc' = "focus"
    /\ UNCHANGED <<cache_lock, stack_active, saved_app_model, active_app_model, crashed>>
    /\ UNCHANGED DispFrame

FocusOk ==
    /\ DispRunning /\ disp_pc = "focus"
    /\ disp_pc' = "recv"
    /\ UNCHANGED <<queue, cache_lock, stack_active, saved_app_model, active_app_model,
                   crashed>>
    /\ UNCHANGED DispFrame

\* .expect("Failed to focus selected window") on an Err panics
FocusErr ==
    /\ DispRunning /\ disp_pc = "focus"
    /\ crashed' = TRUE
    /\ UNCHANGED <<queue, disp_pc, cache_lock, stack_active, saved_app_model,
                   active_app_model>>
    /\ UNCHANGED DispFrame

\* Event::Close(e): the WindowQuit call is issued and awaited
RecvClose ==
    /\ DispRunning /\ disp_pc = "recv" /\ HeadIs("Close")
    /\ queue' = Tail(queue)
    /\ disp_pc' = "quit"
    /\ UNCHANGED <<cache_lock, stack_active, saved_app_model, active_app_model, crashed>>
    /\ UNCHANGED DispFrame

QuitOk ==
    /\ DispRunning /\ disp_pc = "quit"
    /\ disp_pc' = "recv"
    /\ UNCHANGED <<queue, cache_lock, stack_active, saved_app_model, active_app_model,
                   crashed>>
    /\ UNCHANGED DispFrame

\* .expect("Failed to close selected window") on an Err panics
QuitErr ==
    /\ DispRunning /\ disp_pc = "quit"
    /\ crashed' = TRUE
    /\ UNCHANGED <<queue, disp_pc, cache_lock, stack_active, saved_app_model,
                   active_app_model>>
    /\ UNCHANGED DispFrame

\* Event::Favorite((name, should_favorite)): the move, up to the send
RecvFavorite ==
    /\ DispRunning /\ disp_pc = "recv" /\ HeadIs("Favorite")
    /\ LET name == Head(queue).arg
           should_favorite == Head(queue).flag
       IN IF should_favorite
          THEN LET marked == MarkSaved(active_app_model, name, TRUE)
                   index == LastIndexOf(active_app_model, name)
               IN IF index # 0
                  THEN /\ active_app_model' = RemoveAt(marked, index)
                       /\ saved_app_model' = Append(saved_app_model, marked[index])
                  ELSE /\ active_app_model' = marked
                       /\ UNCHANGED saved_app_model
          ELSE LET marked == MarkSaved(saved_app_model, name, FALSE)
                   index == LastIndexOf(saved_app_model, name)
               IN IF index # 0
                  THEN /\ saved_app_model' = RemoveAt(marked, index)
                       /\ active_app_model' = Append(active_app_model, marked[index])
                  ELSE /\ saved_app_model' = marked
                       /\ UNCHANGED active_app_model
    /\ queue' = Tail(queue)
    /\ disp_pc' = "fav_send"
    /\ UNCHANGED <<cache_lock, stack_active, crashed>>
    /\ UNCHANGED DispFrame

\* tx.send(Event::RefreshFromCache).await
FavSend ==
    /\ DispRunning /\ disp_pc = "fav_send"
    /\ Len(queue) < QueueCap
    /\ queue' = Append(queue, EvRefreshFromCache)
    /\ disp_pc' = "recv"
    /\ UNCHANGED <<cache_lock, stack_active, saved_app_model, active_app_model, crashed>>
    /\ UNCHANGED DispFrame

\* the event is taken off the channel; the handler then blocks in lock()
RecvPass(t, pc) ==
    /\ DispRunning /\ disp_pc = "recv" /\ HeadIs(t)
    /\ queue' = Tail(queue)
    /\ disp_pc' = pc
    /\ UNCHANGED <<cache_lock, stack_active, saved_app_model, active_app_model, crashed>>
    /\ UNCHANGED DispFrame

\* The fold over the cache without taking the lock.
PassGroup_NoLock(pc, next) ==
    /\ DispRunning /\ disp_pc = pc
    /\ stack_active' = Group(cached_window_list)
    /\ disp_pc' = next
    /\ UNCHANGED <<queue, cache_lock, saved_app_model, active_app_model, crashed>>
    /\ UNCHANGED DispFrame

\* the cache is locked and folded into stack_active
PassGroup(pc, next) ==
    /\ DispRunning /\ disp_pc = pc
    /\ cache_lock = "free"
    /\ cache_lock' = "dispatcher"
    /\ stack_active' = Group(cached_window_list)
    /\ disp_pc' = next
    /\ UNCHANGED <<queue, saved_app_model, active_app_model, crashed>>
    /\ UNCHANGED DispFrame

\* the merge with the saved model, the splice of the active model, the guard dropped
PassMerge(pc) ==
    /\ DispRunning /\ disp_pc = pc
    /\ LET m == MergeSaved(saved_app_model, 1, stack_active, cached_window_list)
       IN /\ saved_app_model' = m.saved
          /\ active_app_model' = Publish(m.stacks)
    /\ stack_active' = <<>>
    /\ cache_lock' = "free"
    /\ disp_pc' = "recv"
    /\ UNCHANGED <<queue, crashed>>
    /\ UNCHANGED DispFrame

\* Event::RefreshFromCache (lib.rs:169-241)
RecvRefreshFromCache == RecvPass("RefreshFromCache", "refresh_lock")
RefreshGroup == PassGroup("refresh_lock", "refresh_merge")
RefreshMerge == PassMerge("refresh_merge")

\* Event::WindowList (lib.rs:242-313)
RecvWindowList == RecvPass("WindowList", "wl_lock")
WindowListGroup == PassGroup("wl_lock", "wl_merge")
WindowListMerge == PassMerge("wl_merge")

DispNext ==
    \/ RecvActivate \/ FocusOk \/ FocusErr
    \/ RecvClose \/ QuitOk \/ QuitErr
    \/ RecvFavorite \/ FavSend
    \/ RecvRefreshFromCache \/ RefreshGroup \/ RefreshMerge
    \/ RecvWindowList \/ WindowListGroup \/ WindowListMerge

(***************************************************************************)
(* The presentation side: widgets holding a clone of tx send Activate,     *)
(* Close and Favorite events from the main thread.                         *)
(***************************************************************************)
\* the windows and the objects the two models show
ShownObjects == {saved_app_model[i] : i \in DOMAIN saved_app_model}
                    \cup {active_app_model[i] : i \in DOMAIN active_app_model}

ShownWindows == UNION {{o.active.windows[k] : k \in DOMAIN o.active.windows} : o \in ShownObjects}

\* a widget sends ev on its clone of tx, from the main thread
UiSend(ev) ==
    /\ lifecycle = "loaded" /\ ~MainBusy /\ ~crashed
    /\ Len(queue) < QueueCap
    /\ queue' = Append(queue, ev)
    /\ UNCHANGED <<cached_window_list, cache_lock, close_thread, poller_pc, reply,
                   disp_pc, stack_active, saved_app_model, active_app_model,
                   lifecycle, crashed, last_ok, had_ok, slept>>

\* a click on a shown window
UiActivate == \E w \in ShownWindows : UiSend(EvActivate(w.id))

\* the close button of a shown window
UiClose == \E w \in ShownWindows : UiSend(EvClose(w.id))

\* the favorite toggle of a shown item
UiFavorite == \E o \in ShownObjects, f \in BOOLEAN : UiSend(EvFavorite(o.path, f))

UiNext == UiActivate \/ UiClose \/ UiFavorite

(***************************************************************************)
(* on_plugin_unload (lib.rs:92-101), called by the host on the main thread. *)
(***************************************************************************)
UnloadFrame == <<cached_window_list, cache_lock, poller_pc, reply, stack_active,
                 saved_app_model, active_app_model, crashed, last_ok, had_ok, slept>>

\* *close_thread.lock() = true
UnloadSetFlag ==
    /\ lifecycle = "loaded" /\ ~MainBusy /\ ~crashed
    /\ close_thread' = TRUE
    /\ lifecycle' = "join"
    /\ UNCHANGED <<queue, disp_pc>>
    /\ UNCHANGED UnloadFrame

\* The join left out: the teardown goes on while the thread may still run.
UnloadJoin_NoWait ==
    /\ lifecycle = "join" /\ ~crashed
    /\ lifecycle' = "remove"
    /\ UNCHANGED <<queue, disp_pc, close_thread>>
    /\ UNCHANGED UnloadFrame

\* zbus_handle.take().unwrap().join().unwrap() returns once the thread has ended
UnloadJoin ==
    /\ lifecycle = "join" /\ ~crashed
    /\ poller_pc = "stopped"
    /\ lifecycle' = "remove"
    /\ UNCHANGED <<queue, disp_pc, close_thread>>
    /\ UNCHANGED UnloadFrame

\* event_handle.take().unwrap().remove(): the event loop future is dropped, and
\* with it the receiver, which drops the messages still in the channel
UnloadRemove ==
    /\ lifecycle = "remove" /\ ~crashed
    /\ disp_pc' = "removed"
    /\ queue' = <<>>
    /\ lifecycle' = "closed"
    /\ UNCHANGED close_thread
    /\ UNCHANGED UnloadFrame

\* block_on(tx.take().unwrap().closed()) returns once the receiver is gone
UnloadClosed ==
    /\ lifecycle = "closed" /\ ~crashed
    /\ disp_pc = "removed"
    /\ lifecycle' = "drop"
    /\ UNCHANGED <<queue, disp_pc, close_thread>>
    /\ UNCHANGED UnloadFrame

\* drop(apps_container.take().unwrap())
UnloadDrop ==
    /\ lifecycle = "drop" /\ ~crashed
    /\ lifecycle' = "done"
    /\ UNCHANGED <<queue, disp_pc, close_thread>>
    /\ UNCHANGED UnloadFrame

UnloadNext ==
    \/ UnloadSetFlag \/ UnloadJoin \/ UnloadRemove \/ UnloadClosed \/ UnloadDrop

(***************************************************************************)
(* The system. A panic ends the process: every action requires ~crashed.   *)
(***************************************************************************)
Next ==
    \/ OnPluginLoad
    \/ PollerNext
    \/ DispNext
    \/ UiNext
    \/ UnloadNext

Spec == Init /\ [][Next]_vars

(***************************************************************************)
(* The reconciliation passes on their own. The runs start where the first  *)
(* successful poll has spliced a non-empty reply into the cache, the       *)
(* models still as on_plugin_load left them, and either                    *)
(*   - the poller has sent Event::WindowList and is in its sleep, or       *)
(*   - a favorite toggle that moved nothing (the active model is empty)    *)
(*     has sent Event::RefreshFromCache while the poller, the cache guard  *)
(*     held, still awaits its send.                                        *)
(* From there only the passes and the poller's send run.                   *)
(*                                                                         *)
(* A pass reads the description of a window and nothing else of it, so a   *)
(* cache is drawn as a sequence of descriptions: its k-th window has       *)
(* handle k, and the titles ascend with k as the sort leaves them.         *)
(***************************************************************************)
PassCache(ds) ==
    [k \in DOMAIN ds |-> [id |-> k, name |-> MinOf(k, MaxTitle), description |-> ds[k]]]

PassCaches == {PassCache(ds) : ds \in SeqsUpTo(1..PassMaxApp, PassMaxLen) \ {<<>>}}

InitPass ==
    /\ cached_window_list \in PassCaches
    /\ saved_app_model \in FavsOver(1..PassMaxApp, PassMaxFav)
    /\ \/ /\ queue = <<EvWindowList>>
          /\ poller_pc = "sleep"
          /\ cache_lock = "free"
       \/ /\ saved_app_model # <<>>
          /\ queue = <<EvRefreshFromCache>>
          /\ poller_pc = "send"
          /\ cache_lock = "poller"
    /\ close_thread = FALSE
    /\ reply = <<>>
    /\ disp_pc = "recv"
    /\ stack_active = <<>>
    /\ active_app_model = <<>>
    /\ lifecycle = "loaded"
    /\ crashed = FALSE
    /\ last_ok = cached_window_list
    /\ had_ok = TRUE
    /\ slept = FALSE

NextPass ==
    \/ RecvRefreshFromCache \/ RefreshGroup \/ RefreshMerge
    \/ RecvWindowList \/ WindowListGroup \/ WindowListMerge
    \/ PollerSend

SpecPass == InitPass /\ [][NextPass]_vars

(***************************************************************************)
(* A favorite toggle and its way back. The runs start after a pass has     *)
(* published a cache in which ToggleApp has windows, ToggleApp not among   *)
(* the favorites, and the widget of its running item has sent              *)
(* Favorite((ToggleApp, true)). From there the poller and the event loop   *)
(* run, and the widget of ToggleApp sends Favorite((ToggleApp, false)).    *)
(***************************************************************************)
ToggleApp == MinKey(AppNames)

ToggleInit(cache, favs) ==
    LET m == MergeSaved(favs, 1, Group(cache), cache)
    IN /\ cached_window_list = cache
       /\ saved_app_model = m.saved
       /\ active_app_model = Publish(m.stacks)
       /\ last_ok = cache

InitToggle ==
    /\ \E r \in Replies, favs \in FavsOver(AppNames \ {ToggleApp}, MaxFav) :
           /\ \E k \in DOMAIN r : r[k].description = ToggleApp
           /\ ToggleInit(SortByName(r), favs)
    /\ queue = <<EvFavorite(ToggleApp, TRUE)>>
    /\ cache_lock = "free"
    /\ close_thread = FALSE
    /\ poller_pc = "sleep"
    /\ reply = <<>>
    /\ disp_pc = "recv"
    /\ stack_active = <<>>
    /\ lifecycle = "loaded"
    /\ crashed = FALSE
    /\ had_ok = TRUE
    /\ slept = FALSE

\* the favorite toggle of the item of ToggleApp, switched off
UiUnfavorite == UiFavorite /\ queue' = Append(queue, EvFavorite(ToggleApp, FALSE))

NextToggle ==
    \/ PollerNext
    \/ RecvFavorite \/ FavSend
    \/ RecvRefreshFromCache \/ RefreshGroup \/ RefreshMerge
    \/ RecvWindowList \/ WindowListGroup \/ WindowListMerge
    \/ UiUnfavorite

SpecToggle == InitToggle /\ [][NextToggle]_vars

(***************************************************************************)
(* One toggle of whatever application. The runs start after a pass, with   *)
(* a Favorite event in the channel that a widget sent before that pass:    *)
(* the application it names may since have left the model it was shown in, *)
(* or be in neither model. The handler and its refresh run.                *)
(***************************************************************************)
InitFav ==
    /\ \E cache \in PassCaches, favs \in FavsOver(1..PassMaxApp, PassMaxFav) :
           ToggleInit(cache, favs)
    /\ \E name \in 1..PassMaxApp, should_favorite \in BOOLEAN :
           queue = <<EvFavorite(name, should_favorite)>>
    /\ cache_lock = "free"
    /\ close_thread = FALSE
    /\ poller_pc = "sleep"
    /\ reply = <<>>
    /\ disp_pc = "recv"
    /\ stack_active = <<>>
    /\ lifecycle = "loaded"
    /\ crashed = FALSE
    /\ had_ok = TRUE
    /\ slept = FALSE

NextFav ==
    \/ RecvFavorite \/ FavSend
    \/ RecvRefreshFromCache \/ RefreshGroup \/ RefreshMerge

SpecFav == InitFav /\ [][NextFav]_vars

(***************************************************************************)
(* A window manager that has settled. The runs start after a pass has      *)
(* published some cache, at a poll whose call has returned the list that   *)
(* every later call returns too; every call succeeds and decodes. The      *)
(* polling thread and the event loop both keep running: the thread is      *)
(* scheduled by the operating system, the future by the glib main loop.    *)
(***************************************************************************)
InitHeal ==
    /\ \E prev \in Replies, favs \in InitFavs : ToggleInit(SortByName(prev), favs)
    /\ reply \in Replies
    /\ poller_pc = "lock"
    /\ queue = <<>>
    /\ cache_lock = "free"
    /\ close_thread = FALSE
    /\ disp_pc = "recv"
    /\ stack_active = <<>>
    /\ lifecycle = "loaded"
    /\ crashed = FALSE
    /\ had_ok = TRUE
    /\ slept = FALSE

\* the call answers what it answered last
PollerReplySame == PollerReplyOk /\ reply' = last_ok

PollerHeal ==
    \/ PollerCheckFlag \/ PollerReplySame \/ PollerDiff \/ PollerSend \/ PollerSleep

WindowListPass == RecvWindowList \/ WindowListGroup \/ WindowListMerge

NextHeal == PollerHeal \/ WindowListPass

SpecHeal ==
    /\ InitHeal
    /\ [][NextHeal]_vars
    /\ WF_vars(PollerHeal)
    /\ WF_vars(WindowListPass)

(***************************************************************************)
(* Properties.                                                             *)
(***************************************************************************)
\* the windows of a sequence
Range(s) == {s[i] : i \in DOMAIN s}

\* the two sequences differ in length or in the title at some aligned position
TitlesDiffer(a, b) ==
    \/ Len(a) # Len(b)
    \/ \E i \in DOMAIN a : a[i].name # b[i].name

\* the same windows, in whatever order
SameWindows(a, b) == Len(a) = Len(b) /\ Range(a) = Range(b)

\* the cache windows of one application, in cache order
WindowsOf(cache, d) == SelectSeq(cache, LAMBDA w : w.description = d)

\* C1: in a poll iteration whose reply decodes, if the sorted reply differs from
\* the cache in length or in the title at an aligned position, the poller
\* replaces the cache with the sorted reply and goes on to push WindowList.
C1_MismatchReplacesAndNotifies ==
    [][(PollerDiff /\ TitlesDiffer(SortByName(reply), cached_window_list))
          => (cached_window_list' = SortByName(reply) /\ poller_pc' = "send")]_vars

\* C2: when a decoded reply holds the same windows as the previous decoded
\* reply (identical or reordered), the iteration leaves the cache as it is
\* and pushes nothing: it goes from the compare straight to the sleep.
C2_SameWindowsNoChange ==
    [][(poller_pc = "lock" /\ poller_pc' # "lock" /\ had_ok /\ SameWindows(last_ok, reply))
          => (/\ cached_window_list' = cached_window_list
              /\ queue' = queue
              /\ poller_pc' = "sleep")]_vars

\* the poller holds a reordered copy of the previous reply and is about to compare it
C2_Witness ==
    /\ poller_pc = "lock" /\ cache_lock = "free" /\ had_ok
    /\ SameWindows(last_ok, reply) /\ reply # last_ok
    /\ cached_window_list = SortByName(last_ok)
    /\ SortByName(reply) # reply

\* C3: whenever the cache lock is free, the cache is empty before the first
\* decoded reply and afterwards equals the title-sorted last decoded reply.
C3_CacheIsLatestSnapshot ==
    cache_lock = "free" =>
        IF had_ok THEN cached_window_list = SortByName(last_ok)
                  ELSE cached_window_list = <<>>

\* C4: an iteration whose call fails, or whose reply does not decode, leaves
\* the cache and the channel alone and stays in the loop (back to the loop
\* head, directly or through the sleep).
C4_FailedCallSkipsCycle ==
    [][(poller_pc = "call" /\ poller_pc' \notin {"call", "lock"})
          => (/\ cached_window_list' = cached_window_list
              /\ queue' = queue
              /\ cache_lock' = cache_lock
              /\ ~crashed'
              /\ poller_pc' \in {"top", "sleep"})]_vars

\* a failed call brought the poller back to the loop head with the cache kept
C4_Witness ==
    /\ poller_pc = "top" /\ ~slept /\ ~close_thread
    /\ cached_window_list # <<>>

\* C5: the poller never issues a WindowList call unless it slept since the
\* previous one.
C5_SleepBetweenCalls ==
    [][(poller_pc = "top" /\ poller_pc' = "call") => slept]_vars

\* C6: a WindowFocus or WindowQuit call that fails is dropped: no crash, the
\* cache and both models unchanged, the event loop back at recv.
C6_FocusCloseFailureDropped ==
    [][(FocusErr \/ QuitErr)
          => (/\ ~crashed'
              /\ disp_pc' = "recv"
              /\ UNCHANGED <<cached_window_list, saved_app_model, active_app_model>>)]_vars

\* C7: while on_plugin_unload waits in join, the polling thread has ended or
\* can take its next step, whatever the channel holds: it is never blocked,
\* so it reaches the loop head, reads the flag and ends.
C7_ShutdownJoinCompletes ==
    lifecycle = "join" => (poller_pc = "stopped" \/ ENABLED PollerNext)

\* C8: on_plugin_unload sets the flag, joins the polling thread, removes the
\* event loop and closes the channel, then drops the container, in that
\* order; the polling thread has ended before the channel is closed, and
\* once it has returned the cache is not written and no event is pushed or
\* handled.
TeardownOrder ==
    {<<"new", "loaded">>, <<"loaded", "join">>, <<"join", "remove">>,
     <<"remove", "closed">>, <<"closed", "drop">>, <<"drop", "done">>}

C8_TeardownOrder ==
    [][/\ lifecycle' # lifecycle => <<lifecycle, lifecycle'>> \in TeardownOrder
       /\ close_thread' # close_thread => (lifecycle = "loaded" /\ lifecycle' = "join")
       /\ disp_pc' = "removed" => lifecycle' \in {"closed", "drop", "done"}
       /\ lifecycle' \in {"remove", "closed", "drop", "done"} => poller_pc' = "stopped"
       /\ lifecycle' \in {"closed", "drop", "done"} => (disp_pc' = "removed" /\ queue' = <<>>)
       /\ lifecycle = "done" =>
              UNCHANGED <<cached_window_list, queue, disp_pc, saved_app_model,
                          active_app_model>>]_vars

\* on_plugin_unload has returned after the plugin polled and showed windows
C8_Witness ==
    /\ lifecycle = "done"
    /\ cached_window_list # <<>>
    /\ active_app_model # <<>>

\* C9: the grouping of a pass has one stack per description in the cache,
\* each stack holding that description's cache windows in cache order, and
\* the stacks together hold every cache window once.
C9_GroupingCorrect ==
    disp_pc \in {"wl_merge", "refresh_merge"} =>
        LET cache == cached_window_list
            keys == {cache[i].description : i \in DOMAIN cache}
        IN /\ Len(stack_active) = Cardinality(keys)
           /\ \A k \in keys :
                  Cardinality({j \in DOMAIN stack_active :
                                  stack_active[j] = WindowsOf(cache, k)}) = 1
           /\ \A i \in DOMAIN cache :
                  Cardinality({jk \in {<<j, k>> : j \in DOMAIN stack_active, k \in 1..Len(cache)} :
                                  /\ jk[2] \in DOMAIN stack_active[jk[1]]
                                  /\ stack_active[jk[1]][jk[2]] = cache[i]}) = 1

\* a pass has grouped three windows of two applications, the two windows of the
\* one application apart in the cache
C9_Witness ==
    /\ disp_pc \in {"wl_merge", "refresh_merge"}
    /\ Len(cached_window_list) = 3
    /\ cached_window_list[1].description = cached_window_list[3].description
    /\ cached_window_list[1].description # cached_window_list[2].description
    /\ Len(stack_active) = 2

\* favorites with an appinfo have pairwise different names
DistinctNames(saved) ==
    \A i, j \in DOMAIN saved :
        (i # j /\ saved[i].appinfo # NoApp) => saved[i].appinfo # saved[j].appinfo

PassEnds == disp_pc \in {"wl_merge", "refresh_merge"} /\ disp_pc' = "recv"

\* C10: after a pass over favorites with distinct names, every favorite whose
\* name is the description of a cache window has as its active stack exactly
\* that application's cache windows, and no object of the active model
\* holds windows of that application.
C10_FavoriteGetsItsStack ==
    [][(PassEnds /\ DistinctNames(saved_app_model)) =>
          \A i \in DOMAIN saved_app_model' :
              LET n == saved_app_model'[i].appinfo
              IN (n # NoApp /\ WindowsOf(cached_window_list, n) # <<>>) =>
                     /\ saved_app_model'[i].active = SomeStack(WindowsOf(cached_window_list, n))
                     /\ \A j \in DOMAIN active_app_model' :
                            \A k \in DOMAIN active_app_model'[j].active.windows :
                                active_app_model'[j].active.windows[k].description # n]_vars

\* after a pass a favorite holds the two windows of its application while
\* another application is in the active model
C10_Witness ==
    /\ disp_pc = "recv" /\ cache_lock = "free"
    /\ DistinctNames(saved_app_model)
    /\ active_app_model # <<>>
    /\ \E i \in DOMAIN saved_app_model :
           /\ saved_app_model[i].appinfo # NoApp
           /\ Len(saved_app_model[i].active.windows) = 2
           /\ saved_app_model[i].active.windows
                  = WindowsOf(cached_window_list, saved_app_model[i].appinfo)

\* C11: after a pass, a favorite that had no active stack and whose name is
\* the description of no cache window has an active stack that is present
\* and empty.
C11_MissingFavoriteGetsEmptyStack ==
    [][PassEnds =>
          \A i \in DOMAIN saved_app_model :
              (/\ saved_app_model[i].active = NoStack
               /\ saved_app_model[i].appinfo # NoApp
               /\ WindowsOf(cached_window_list, saved_app_model[i].appinfo) = <<>>)
                  => saved_app_model'[i].active = SomeStack(<<>>)]_vars

\* the object named `name` is not in the model
NotIn(model, name) == \A i \in DOMAIN model : model[i].path # name

\* C13: handling Favorite((name, should_favorite)) when no object of the
\* source model (active when favoriting, saved when unfavoriting) has that
\* path does not crash and leaves both models as they are.
C13_ToggleOfAbsentIsNoOp ==
    [][(/\ RecvFavorite
        /\ NotIn(IF Head(queue).flag THEN active_app_model ELSE saved_app_model,
                 Head(queue).arg))
          => (/\ UNCHANGED <<saved_app_model, active_app_model>>
              /\ ~crashed'
              /\ disp_pc' = "fav_send")]_vars

\* the handler has gone through a toggle that found nothing to move: the one
\* favorite is as the pass left it, without a stack, and the active model
\* holds every stack of the cache
C13_Witness ==
    /\ disp_pc = "fav_send"
    /\ Len(saved_app_model) = 1
    /\ saved_app_model[1].active = NoStack /\ saved_app_model[1].saved
    /\ Len(active_app_model) = 2
    /\ active_app_model = Publish(Group(cached_window_list))

\* C15: a thread that waits on a remote call, on a send into the channel or
\* in a sleep does not hold the cache lock.
C15_NoLockWhileBlocked ==
    /\ poller_pc \in {"call", "send", "sleep"} => cache_lock # "poller"
    /\ disp_pc \in {"focus", "quit", "fav_send"} => cache_lock # "dispatcher"

\* C16: the send of RefreshFromCache at the end of the Favorite handler can
\* always complete: while the event loop lives and the handler stands at the
\* send, the channel has room (nobody but the event loop takes events off).
C16_FavoriteRefreshCompletes ==
    (DispRunning /\ disp_pc = "fav_send") => Len(queue) < QueueCap

\* C19: the cache is sorted by title, non-decreasing.
C19_CacheSortedByTitle ==
    \A i, j \in DOMAIN cached_window_list :
        i < j => cached_window_list[i].name <= cached_window_list[j].name

\* the cache holds a reply that arrived with its titles in descending order
C19_Witness ==
    /\ had_ok /\ cache_lock = "free"
    /\ Len(last_ok) = 2 /\ last_ok[1].name > last_ok[2].name
    /\ cached_window_list = <<last_ok[2], last_ok[1]>>

C18_UnmatchedFavoriteKeepsStack ==
    [][PassEnds =>
          /\ Len(saved_app_model') = Len(saved_app_model)
          /\ \A i \in DOMAIN saved_app_model :
                 (/\ saved_app_model[i].appinfo # NoApp
                  /\ WindowsOf(cached_window_list, saved_app_model[i].appinfo) = <<>>)
                     => saved_app_model'[i] = saved_app_model[i]]_vars

\* the pass after the last window of a favorite closed has run: the cache is
\* empty and the favorite still holds the stack attached before
C18_Witness ==
    /\ lifecycle = "loaded" /\ queue = <<>> /\ disp_pc = "recv" /\ cache_lock = "free"
    /\ poller_pc = "sleep"
    /\ cached_window_list = <<>>
    /\ \E i \in DOMAIN saved_app_model :
           /\ saved_app_model[i].appinfo # NoApp
           /\ saved_app_model[i].active.windows # <<>>

\* what a pass over the current cache and favorites leaves in the active model
RunningOf(saved, cache) == Publish(MergeSaved(saved, 1, Group(cache), cache).stacks)

IndicesOf(model, name) == {i \in DOMAIN model : model[i].path = name}

\* C12 as stated: once Favorite((app, true)) and then Favorite((app, false))
\* are handled, app is in no object of the saved model, and the
\* RefreshFromCache pass that follows leaves app in exactly one object of
\* the active model, holding the windows the cache has for it.
C12_ToggleRoundTrip ==
    [][/\ (RecvFavorite /\ Head(queue) = EvFavorite(ToggleApp, FALSE))
              => NotIn(saved_app_model', ToggleApp)
       /\ (RefreshMerge /\ NotIn(saved_app_model, ToggleApp))
              => /\ NotIn(saved_app_model', ToggleApp)
                 /\ \E j \in DOMAIN active_app_model' :
                        /\ IndicesOf(active_app_model', ToggleApp) = {j}
                        /\ active_app_model'[j].active.windows
                               = WindowsOf(cached_window_list, ToggleApp)]_vars

\* C12 amended: the same, provided the cache then has a window of app; when
\* it has none, app is in neither model.
C12_ToggleRoundTripWhileRunning ==
    [][/\ (RecvFavorite /\ Head(queue) = EvFavorite(ToggleApp, FALSE))
              => NotIn(saved_app_model', ToggleApp)
       /\ (RefreshMerge /\ NotIn(saved_app_model, ToggleApp))
              => /\ NotIn(saved_app_model', ToggleApp)
                 /\ IF WindowsOf(cached_window_list, ToggleApp) = <<>>
                    THEN NotIn(active_app_model', ToggleApp)
                    ELSE \E j \in DOMAIN active_app_model' :
                             /\ IndicesOf(active_app_model', ToggleApp) = {j}
                             /\ active_app_model'[j].active
                                    = SomeStack(WindowsOf(cached_window_list, ToggleApp))]_vars

\* the round trip is over: ToggleApp is back in the active model with the
\* two windows the cache now has for it
C12_Witness ==
    /\ queue = <<>> /\ disp_pc = "recv" /\ cache_lock = "free"
    /\ NotIn(saved_app_model, ToggleApp)
    /\ Len(WindowsOf(cached_window_list, ToggleApp)) = 2
    /\ \E j \in DOMAIN active_app_model :
           /\ active_app_model[j].path = ToggleApp
           /\ active_app_model[j].active.windows = WindowsOf(cached_window_list, ToggleApp)

\* C14: when every call from some point on succeeds with the same list,
\* eventually and from then on the cache is that list sorted by title and,
\* whenever the channel is empty, the event loop idle and the lock free,
\* the two models show exactly the windows of that list.
C14_SelfHealing ==
    <>[](/\ cached_window_list = SortByName(last_ok)
         /\ (queue = <<>> /\ disp_pc = "recv" /\ cache_lock = "free")
                => ShownWindows = Range(last_ok))

\* the places of a model that hold window w: <<object, position>>
PlacesIn(model, w) ==
    UNION {{<<i, k>> : k \in {x \in DOMAIN model[i].active.windows :
                                 model[i].active.windows[x] = w}} :
           i \in DOMAIN model}

\* the number of places of the two models that hold window w
PlacesOf(saved, active, w) ==
    Cardinality(PlacesIn(saved, w)) + Cardinality(PlacesIn(active, w))

\* C21: when a pass ends, every window of the cache is at exactly one place
\* of the two models (in the active stack of one favorite or of one object
\* of the active model), and every object of the active model holds a
\* stack that is present and not empty.
C21_EachWindowShownOnce ==
    [][PassEnds =>
          /\ \A n \in DOMAIN cached_window_list :
                 PlacesOf(saved_app_model', active_app_model', cached_window_list[n]) = 1
          /\ \A j \in DOMAIN active_app_model' :
                 /\ active_app_model'[j].active.some
                 /\ active_app_model'[j].active.windows # <<>>]_vars

\* a pass has ended over two favorites of one name, the first holding the
\* two windows of that application and the second an empty stack, a third
\* window of another application in the active model
C21_Witness ==
    /\ disp_pc = "recv" /\ cache_lock = "free" /\ queue = <<>>
    /\ Len(cached_window_list) = 3
    /\ Len(saved_app_model) = 2
    /\ saved_app_model[1].appinfo # NoApp
    /\ saved_app_model[1].appinfo = saved_app_model[2].appinfo
    /\ Len(saved_app_model[1].active.windows) = 2
    /\ saved_app_model[2].active = SomeStack(<<>>)
    /\ Len(active_app_model) = 1

====
